---- MODULE Spec2Model ----
(***************************************************************************)
(* The participant/track reconciler of src/script.js: the handler of the   *)
(* participant-joined / participant-updated events, the media source      *)
(* reconciliation, the visibility mapping, the teardown of media elements, *)
(* the device toggles and leave().  The document is modelled per          *)
(* participant id: how many elements carry each id, and the attributes of  *)
(* the media elements (srcObject, style.display, onloadedmetadata).        *)
(***************************************************************************)
EXTENDS Integers, FiniteSets, Sequences, TLC

\* ------------------------------------------------------------------ bounds
NumRemote == 1
MaxHandle == 2
MaxPendingLeave == 1

\* ------------------------------------------------------------- data model
\* Session ids.  Id 0 is the local participant, the others are remote.
Ids == 0 .. NumRemote

IsLocalId(p) == p = 0

\* persistentTrack values: a MediaStreamTrack, or absent (undefined).
NoTrack == 0

Handles == 1 .. MaxHandle

TrackTypes == {"video", "audio"}

\* Track states; "loading" stands for any state the switch does not name.
States == {"off", "interrupted", "blocked", "playable", "loading"}

AudioStates == {"playable"}

\* Object.entries(tracks): the key order is the SDK's.
Orders == {<<"video", "audio">>, <<"audio", "video">>}

\* srcObject: null, or a MediaStream holding a set of tracks.
NoStream == [tracks |-> {}, live |-> FALSE]

MediaStream(ts) == [tracks |-> ts, live |-> TRUE]

\* A media element kind of a participant: n is the number of such elements
\* in the document, the attributes are those of the element.  A removed
\* element leaves the model; dom.unreleased counts the elements removed
\* while their srcObject was still set.
NoElement == [n |-> 0, src |-> NoStream, display |-> "", onloadedmetadata |-> FALSE]

\* The ids elements carry.  The video element of a container has a class
\* and no id.
ContainerId(p) == <<"video-container", p>>

AudioId(p) == <<"audio", p>>

\* The playback of a media element: how many play-on-load callbacks are
\* attached to it, whether the metadata of its source is still to load,
\* whether a play() promise is unsettled, whether it plays, and the handle of
\* its most recent rebinding.
NoPlayback == [handlers |-> 0, loading |-> FALSE, pending |-> FALSE, playing |-> FALSE,
               handle |-> NoTrack]

VARIABLES dom, call, last, media

vars == <<dom, call, last, media>>

\* --------------------------------------------------------------- document
\* createVideoContainer: a div#video-container-{id} under #videos with a
\* video.video-element child.
createVideoContainer(d, p) ==
    [d EXCEPT !.container[p] = @ + 1,
              !.video[p] = [NoElement EXCEPT !.n = d.video[p].n + 1]]

\* createAudioElement: an audio#audio-{id}.
createAudioElement(d, p) ==
    [d EXCEPT !.audio[p] = [NoElement EXCEPT !.n = d.audio[p].n + 1]]

\* updateAndDisplayParticipantCount: shows the SDK's participant count.
updateAndDisplayParticipantCount(d, cnt) == [d EXCEPT !.count = cnt]

\* The participants the SDK has announced so far, p included.
Announced(d, p) == Cardinality({q \in Ids : d.container[q] > 0} \cup {p})

\* document.getElementById(id) among the elements of p: the kind of the
\* element found ("container" or "audio"), "" for null.  The video elements
\* carry no id.
GetElementById(d, id, p) ==
    IF id = ContainerId(p) /\ d.container[p] > 0 THEN "container"
    ELSE IF id = AudioId(p) /\ d.audio[p].n > 0 THEN "audio"
    ELSE ""

\* document.querySelector('#video-container-{id} video.video-element').
QueryVideoElement(d, p) ==
    IF d.container[p] > 0 /\ d.video[p].n > 0 THEN "video" ELSE ""

\* ------------------------------------------------------ execution context
\* An operation runs on a context: the document, what it logged, which
\* startOrUpdateTrack calls it made, which elements got a new MediaStream,
\* and whether it threw.
Ctx(d) == [dom |-> d, log |-> {}, calls |-> {}, streams |-> {}, threw |-> FALSE]

\* ---------------------------------------------------- startOrUpdateTrack
NeedsUpdateAlways(src, h) == TRUE

\* existingTracks?.includes(persistentTrack), negated.
NeedsUpdate(src, h) == ~(src.live /\ h \in src.tracks)

\* trackEl.srcObject = new MediaStream([persistentTrack]); onloadedmetadata set.
Bind(el, h) ==
    [el EXCEPT !.src = MediaStream({h}), !.onloadedmetadata = TRUE]

startOrUpdateTrack(x, tt, track, p) ==
    LET x1 == [x EXCEPT !.calls = @ \cup {tt}]
        trackEl == IF tt = "video" THEN QueryVideoElement(x.dom, p)
                   ELSE IF GetElementById(x.dom, AudioId(p), p) = "audio" THEN "audio" ELSE ""
    IN  IF trackEl = ""
        THEN [x1 EXCEPT !.log = @ \cup {<<"element does not exist", tt, p>>}]
        ELSE IF NeedsUpdate(x.dom[trackEl][p].src, track.persistentTrack)
             THEN [x1 EXCEPT !.dom[trackEl][p] = Bind(@, track.persistentTrack),
                             !.streams = @ \cup {tt}]
             ELSE x1

OnBindAddsListener(m, h) ==
    [m EXCEPT !.handlers = @ + 1, !.loading = TRUE, !.playing = FALSE, !.handle = h]

\* The playback after a rebinding to h: the new source is to load, the
\* assignment to onloadedmetadata replaces the callback; a play() promise of
\* an earlier binding stays unsettled.
OnBind(m, h) ==
    [m EXCEPT !.handlers = 1, !.loading = TRUE, !.playing = FALSE, !.handle = h]

\* trackEl.play() in the onloadedmetadata callback.
OnLoadedMetadata(m) == [m EXCEPT !.loading = FALSE, !.pending = TRUE]

\* The play() promise resolved.
OnPlayResolved(m) == [m EXCEPT !.pending = FALSE, !.playing = TRUE]

\* The play() promise rejected.
OnPlayRejected(m) == [m EXCEPT !.pending = FALSE, !.playing = FALSE]

playCatchRethrows(x, k, p) ==
    [x EXCEPT !.threw = TRUE, !.log = @ \cup {<<"Error playing", k, p>>}]

\* .catch((e) => console.error(`Error playing ...`, e))
playCatch(x, k, p) == [x EXCEPT !.log = @ \cup {<<"Error playing", k, p>>}]

\* ----------------------------------------------------------- updateVideoUi
DisplayFor(state) ==
    IF state \in {"off", "interrupted", "blocked"} THEN "none" ELSE ""

updateVideoUiAll(x, track, p) ==
    IF GetElementById(x.dom, ContainerId(p), p) = "" \/ x.dom.video[p].n = 0
    THEN [x EXCEPT !.threw = TRUE]
    ELSE [x EXCEPT !.dom.video = [q \in Ids |-> IF x.dom.video[q].n > 0
                                                THEN [x.dom.video[q] EXCEPT !.display = DisplayFor(track.state)]
                                                ELSE x.dom.video[q]]]

\* A null container or a null video element makes the property access throw.
updateVideoUi(x, track, p) ==
    IF GetElementById(x.dom, ContainerId(p), p) = "" \/ x.dom.video[p].n = 0
    THEN [x EXCEPT !.threw = TRUE]
    ELSE [x EXCEPT !.dom.video[p].display = DisplayFor(track.state)]

\* ----------------------------------------------------------- destroyTracks
ElementIdAudio(tt, p) == <<"audio", p>>

\* `${trackType}-${participantId}`
ElementId(tt, p) == <<tt, p>>

\* element.srcObject = null
ClearSrc(d, k, p) == [d EXCEPT ![k][p].src = NoStream]

\* Removes m of the elements of kind k of p from the document.
RemoveElements(d, k, p, m) ==
    [d EXCEPT ![k][p] = IF d[k][p].n > m THEN [d[k][p] EXCEPT !.n = @ - m] ELSE NoElement,
              !.unreleased = @ + (IF d[k][p].src.live THEN 1 ELSE 0)]

destroyOneUnchecked(x, tt, p) ==
    LET k == GetElementById(x.dom, ElementId(tt, p), p)
    IN  IF k \in {"audio", "video"}
        THEN [x EXCEPT !.dom = RemoveElements(ClearSrc(x.dom, k, p), k, p, 1)]
        ELSE [x EXCEPT !.threw = TRUE]

\* The body of the forEach callback for one track type.
destroyOne(x, tt, p) ==
    LET k == GetElementById(x.dom, ElementId(tt, p), p)
    IN  IF k \in {"audio", "video"}
        THEN [x EXCEPT !.dom = RemoveElements(ClearSrc(x.dom, k, p), k, p, 1)]
        ELSE x

RECURSIVE destroyTracks(_, _, _)
destroyTracks(x, tts, p) ==
    IF tts = <<>> THEN x
    ELSE destroyTracks(destroyOne(x, Head(tts), p), Tail(tts), p)

\* ------------------------------------------------- updateUiForDevicesState
OnOff(b) == IF b THEN "On" ELSE "Off"

updateUiForDevicesState(x, tt, c) ==
    IF tt = "video" THEN [x EXCEPT !.dom.camera = <<"Camera", OnOff(c.localVideo)>>]
    ELSE IF tt = "audio" THEN [x EXCEPT !.dom.mic = <<"Mic", OnOff(c.localAudio)>>]
    ELSE x

\* ---------------------------------------- handleParticipantJoinedOrUpdated
NeedsContainerAlways(d, p) == TRUE

NeedsContainer(d, p) == GetElementById(d, ContainerId(p), p) = ""

NeedsAudioElementAlways(d, p, isLocal) == ~isLocal

NeedsAudioElement(d, p, isLocal) == GetElementById(d, AudioId(p), p) = "" /\ ~isLocal

\* The local participant's own audio track is not played.
SkipsTrack(isLocal, tt) == isLocal /\ tt = "audio"

\* The body of the forEach callback for one [trackType, trackInfo] entry.
handleTrack(x, tt, info, p, isLocal, c) ==
    LET x1 == IF info.persistentTrack # NoTrack
              THEN IF ~SkipsTrack(isLocal, tt) THEN startOrUpdateTrack(x, tt, info, p) ELSE x
              ELSE destroyTracks(x, <<tt>>, p)
        x2 == IF tt = "video" THEN updateVideoUi(x1, info, p) ELSE x1
    IN  IF x2.threw THEN x2
        ELSE IF isLocal THEN updateUiForDevicesState(x2, tt, c) ELSE x2

\* forEach over the entries; an exception ends the iteration.
RECURSIVE forEachTrack(_, _, _, _, _, _)
forEachTrack(x, order, tracks, p, isLocal, c) ==
    IF order = <<>> \/ x.threw THEN x
    ELSE forEachTrack(handleTrack(x, Head(order), tracks[Head(order)], p, isLocal, c),
                      Tail(order), tracks, p, isLocal, c)

handleParticipantJoinedOrUpdated(d, c, p, isLocal, tracks, order, cnt) ==
    LET d0 == updateAndDisplayParticipantCount(d, cnt)
        d1 == IF NeedsContainer(d0, p) THEN createVideoContainer(d0, p) ELSE d0
        d2 == IF NeedsAudioElement(d1, p, isLocal) THEN createAudioElement(d1, p) ELSE d1
    IN  forEachTrack(Ctx(d2), order, tracks, p, isLocal, c)

\* -------------------------------------------------------------------- leave
\* The elements 'video' or 'audio' of the participants ps that the selector
\* '#videos video, audio' matches: every video element lies in a container
\* under #videos, and every audio element matches.
RECURSIVE removeMatched(_, _, _)
removeMatched(d, k, ps) ==
    IF ps = {} THEN d
    ELSE LET p == CHOOSE q \in ps : TRUE
         IN  removeMatched(IF d[k][p].n > 0
                           THEN RemoveElements(ClearSrc(d, k, p), k, p, d[k][p].n)
                           ELSE d, k, ps \ {p})

leaveCleanupVideoOnly(d) == removeMatched(d, "video", Ids)

leaveCleanupWithContainers(d) ==
    [removeMatched(removeMatched(d, "video", Ids), "audio", Ids)
        EXCEPT !.container = [p \in Ids |-> 0]]

\* querySelectorAll('#videos video, audio').forEach(el => { el.srcObject = null; el.remove() })
leaveCleanup(d) == removeMatched(removeMatched(d, "video", Ids), "audio", Ids)

\* The statements of the try block after the await.
leaveTry(x) == [x EXCEPT !.dom = leaveCleanup(x.dom)]

leaveCatchCleansUp(x) ==
    [x EXCEPT !.dom = leaveCleanup(x.dom), !.log = @ \cup {<<"Leaving failed", "", 0>>}]

\* catch (e) { console.error('Leaving failed', e) }
leaveCatch(x) == [x EXCEPT !.log = @ \cup {<<"Leaving failed", "", 0>>}]

\* ------------------------------------------------------------ state machine
TrackInfos == [state : States, persistentTrack : {NoTrack} \cup Handles]

AudioInfos == [state : AudioStates, persistentTrack : {NoTrack} \cup Handles]

Init ==
    /\ dom = [container |-> [p \in Ids |-> 0],
              video |-> [p \in Ids |-> NoElement],
              audio |-> [p \in Ids |-> NoElement],
              camera |-> <<"", "">>, mic |-> <<"", "">>, count |-> 0, unreleased |-> 0]
    /\ call = [localVideo |-> TRUE, localAudio |-> TRUE, leaving |-> 0]
    /\ last = [op |-> "init", log |-> {}, threw |-> FALSE]
    /\ media = [k \in TrackTypes |-> [p \in Ids |-> NoPlayback]]

\* What the last operation was ("event", "leaveResolved", "leaveRejected", or
\* "sdk" for a call that only reaches the SDK), what it logged with
\* console.error and whether it threw.
Outcome(op, x) == [op |-> op, log |-> x.log, threw |-> x.threw]

\* The events the SDK can dispatch: the participant, its track snapshot and
\* the order of the snapshot's keys.
Events == [p : Ids, video : TrackInfos, audio : AudioInfos, order : Orders]

Tracks(e) == [video |-> e.video, audio |-> e.audio]

\* The handler applied to event e in the current state.
Handled(e) ==
    handleParticipantJoinedOrUpdated(dom, call, e.p, IsLocalId(e.p), Tracks(e), e.order,
                                     Announced(dom, e.p))

\* The handler applied to event e on document d.
HandledIn(d, e) ==
    handleParticipantJoinedOrUpdated(d, call, e.p, IsLocalId(e.p), Tracks(e), e.order,
                                     Announced(d, e.p))

\* The playback of element el after an operation: an element that is not in
\* the document has none, an element that got a new MediaStream of handle h
\* starts loading it.
PlaybackOf(m, el, rebound, h) ==
    IF el.n = 0 THEN NoPlayback
    ELSE IF rebound THEN OnBind(m, h)
    ELSE m

\* A participant-joined or participant-updated event is dispatched.
ParticipantEvent ==
    \E e \in Events :
        /\ \E x \in {Handled(e)} :
               /\ dom' = x.dom
               /\ last' = Outcome("event", x)
               /\ media' = [k \in TrackTypes |-> [q \in Ids |->
                                PlaybackOf(media[k][q], x.dom[k][q], q = e.p /\ k \in x.streams,
                                           Tracks(e)[k].persistentTrack)]]
        /\ UNCHANGED call

setLocalVideoOn(c) == [c EXCEPT !.localVideo = TRUE]

\* this.call.setLocalVideo(!this.call.localVideo())
setLocalVideoToggled(c) == [c EXCEPT !.localVideo = ~c.localVideo]

\* this.call.setLocalAudio(!this.call.localAudio())
setLocalAudioToggled(c) == [c EXCEPT !.localAudio = ~c.localAudio]

toggleCamera ==
    /\ call' = setLocalVideoToggled(call)
    /\ last' = Outcome("sdk", Ctx(dom))
    /\ UNCHANGED <<dom, media>>

toggleMicrophone ==
    /\ call' = setLocalAudioToggled(call)
    /\ last' = Outcome("sdk", Ctx(dom))
    /\ UNCHANGED <<dom, media>>

\* leave() up to its await: this.call.leave() is requested.
leaveCall ==
    /\ call.leaving < MaxPendingLeave
    /\ call' = [call EXCEPT !.leaving = @ + 1]
    /\ last' = Outcome("sdk", Ctx(dom))
    /\ UNCHANGED <<dom, media>>

\* this.call.leave() resolved: the rest of the try block runs.
leaveResolved ==
    /\ call.leaving > 0
    /\ call' = [call EXCEPT !.leaving = @ - 1]
    /\ \E x \in {leaveTry(Ctx(dom))} :
           /\ dom' = x.dom
           /\ last' = Outcome("leaveResolved", x)
           /\ media' = [k \in TrackTypes |-> [q \in Ids |->
                            PlaybackOf(media[k][q], x.dom[k][q], FALSE, NoTrack)]]

\* this.call.leave() rejected: the catch block runs.
leaveRejected ==
    /\ call.leaving > 0
    /\ call' = [call EXCEPT !.leaving = @ - 1]
    /\ \E x \in {leaveCatch(Ctx(dom))} :
           /\ dom' = x.dom
           /\ last' = Outcome("leaveRejected", x)
           /\ media' = [k \in TrackTypes |-> [q \in Ids |->
                            PlaybackOf(media[k][q], x.dom[k][q], FALSE, NoTrack)]]

Next ==
    \/ ParticipantEvent
    \/ toggleCamera
    \/ toggleMicrophone
    \/ leaveCall
    \/ leaveResolved
    \/ leaveRejected

Spec == Init /\ [][Next]_vars

\* --------------------------------------------------- playback callbacks
\* An event of a remote participant (the events SpecMedia interleaves with
\* the playback callbacks).
RemoteParticipantEvent ==
    \E e \in Events :
        /\ ~IsLocalId(e.p)
        /\ \E x \in {Handled(e)} :
               /\ dom' = x.dom
               /\ last' = Outcome("event", x)
               /\ media' = [k \in TrackTypes |-> [q \in Ids |->
                                PlaybackOf(media[k][q], x.dom[k][q], q = e.p /\ k \in x.streams,
                                           Tracks(e)[k].persistentTrack)]]
        /\ UNCHANGED call

\* The loadedmetadata event of an element: the callback calls play().
loadedMetadata ==
    \E k \in TrackTypes, p \in Ids :
        /\ dom[k][p].n > 0 /\ media[k][p].loading /\ media[k][p].handlers > 0
        /\ media' = [media EXCEPT ![k][p] = OnLoadedMetadata(@)]
        /\ last' = Outcome("loadedmetadata", Ctx(dom))
        /\ UNCHANGED <<dom, call>>

\* The play() promise of an element resolves: its source has loaded.
playResolved ==
    \E k \in TrackTypes, p \in Ids :
        /\ media[k][p].pending /\ ~media[k][p].loading
        /\ media' = [media EXCEPT ![k][p] = OnPlayResolved(@)]
        /\ last' = Outcome("playResolved", Ctx(dom))
        /\ UNCHANGED <<dom, call>>

\* The play() promise of an element rejects (autoplay policy, or the load of
\* a newer source aborting it): the catch callback runs.
playRejected ==
    \E k \in TrackTypes, p \in Ids :
        /\ media[k][p].pending
        /\ LET x == playCatch(Ctx(dom), k, p)
           IN  /\ dom' = x.dom
               /\ last' = Outcome("playRejected", x)
        /\ media' = [media EXCEPT ![k][p] = OnPlayRejected(@)]
        /\ UNCHANGED call

NextMedia ==
    \/ RemoteParticipantEvent
    \/ loadedMetadata
    \/ playResolved
    \/ playRejected
    \/ leaveCall
    \/ leaveResolved
    \/ leaveRejected

SpecMedia == Init /\ [][NextMedia]_vars

\* ------------------------------------------------------------------ claims
\* C1: in every reachable state there is at most one video container and at
\* most one audio element per participant id.
C1_AtMostOnePerId ==
    \A p \in Ids : dom.container[p] <= 1 /\ dom.audio[p].n <= 1

\* An event was handled for a remote participant that has its container and
\* a bound audio element.
C1_Witness ==
    /\ last.op = "event"
    /\ \E p \in Ids : ~IsLocalId(p) /\ dom.container[p] = 1 /\ dom.audio[p].n = 1
                      /\ dom.audio[p].src.live /\ dom.video[p].src.live

\* C2: when the handler processes a snapshot in which a previously live track
\* (its element is in the document and bound) has no persistentTrack, the
\* media element of that track type is removed and its srcObject is null.
C2_TrackLossTearsDown ==
    \A e \in Events : \A tt \in TrackTypes :
        (Tracks(e)[tt].persistentTrack = NoTrack /\ dom[tt][e.p].n > 0 /\ dom[tt][e.p].src.live)
            => (Handled(e).dom[tt][e.p].n = 0 /\ ~Handled(e).dom[tt][e.p].src.live)

\* C3: the handler never throws to its caller.
C3_HandlerNeverThrows == ~last.threw

\* C4: after the handler has processed a descriptor with live handle h for a
\* track that is not the local participant's audio, the element of that
\* track is in the document and bound to a source holding exactly h.
C4_BoundToLatestHandle ==
    \A e \in Events : \A tt \in TrackTypes :
        (Tracks(e)[tt].persistentTrack # NoTrack /\ ~(IsLocalId(e.p) /\ tt = "audio")
         /\ tt \in Handled(e).calls)
            => /\ Handled(e).dom[tt][e.p].n > 0
               /\ Handled(e).dom[tt][e.p].src = MediaStream({Tracks(e)[tt].persistentTrack})

\* C5: calling startOrUpdateTrack twice in a row with the same persistentTrack
\* for the same participant and track type: the second call leaves the
\* document (the srcObject included) as it is, creates no MediaStream and
\* attaches no play-on-load callback.
C5_NoRebindWhenUnchanged ==
    \A p \in Ids, tt \in TrackTypes, h \in Handles :
        LET track == [state |-> "playable", persistentTrack |-> h]
            once == startOrUpdateTrack(Ctx(dom), tt, track, p)
            twice == startOrUpdateTrack(Ctx(once.dom), tt, track, p)
        IN  twice.dom = once.dom /\ twice.streams = {}

\* An event has bound a handle, and the same handle offered again is found
\* bound.
C5_Witness ==
    /\ last.op = "event"
    /\ \E p \in Ids, h \in Handles :
          /\ dom.video[p].n = 1 /\ dom.video[p].src = MediaStream({h})
          /\ startOrUpdateTrack(Ctx(dom), "video",
                                [state |-> "playable", persistentTrack |-> h], p).streams = {}

\* C6: for a local participant startOrUpdateTrack is never invoked with
\* 'audio'; for every other (participant, track type) whose descriptor has a
\* persistentTrack it is invoked.
C6_CallsExceptLocalAudio ==
    \A e \in Events : \A tt \in TrackTypes :
        Tracks(e)[tt].persistentTrack # NoTrack
            => (tt \in Handled(e).calls <=> ~(IsLocalId(e.p) /\ tt = "audio"))

\* C7: after an event with a video descriptor is handled, the participant's
\* video element is hidden for the states off, interrupted and blocked, and
\* visible for any other state.
C7_VisibilityMapping ==
    \A e \in Events :
        /\ Handled(e).dom.video[e.p].n > 0
        /\ Handled(e).dom.video[e.p].display =
               (IF e.video.state \in {"off", "interrupted", "blocked"} THEN "none" ELSE "")

\* C8: after leave() completes with the SDK leave succeeding no video or
\* audio element remains, and no element was removed with its srcObject set.
C8_LeaveCleansAllMedia ==
    last.op = "leaveResolved"
        => /\ \A p \in Ids : dom.video[p].n = 0 /\ dom.audio[p].n = 0
           /\ dom.unreleased = 0

\* A successful leave() has run on a document that held tiles.
C8_Witness ==
    /\ last.op = "leaveResolved"
    /\ \A p \in Ids : dom.container[p] = 1

\* C9: when the SDK leave fails, leave() logs the failure, does not throw and
\* leaves the document as it was.
C9_FailedLeaveKeepsDom ==
    [][last'.op = "leaveRejected"
         => (dom' = dom /\ ~last'.threw /\ <<"Leaving failed", "", 0>> \in last'.log)]_vars

\* A failed leave() on a document that holds bound media elements.
C9_Witness ==
    /\ last.op = "leaveRejected"
    /\ \E p \in Ids : dom.audio[p].n = 1 /\ dom.audio[p].src.live /\ dom.video[p].src.live

\* C10: the device labels follow the local enablement: once the local
\* participant's event that follows a toggle is handled, camera-state and
\* mic-state show On or Off as localVideo() and localAudio() are.
C10_LabelsFollowEnablement ==
    \A e \in Events :
        IsLocalId(e.p)
            => /\ Handled(e).dom.camera = <<"Camera", OnOff(call.localVideo)>>
               /\ Handled(e).dom.mic = <<"Mic", OnOff(call.localAudio)>>

\* C11: handling the same event twice in a row gives the document that
\* handling it once gives: one container, for a remote participant with a
\* live audio track one audio element, the same sources (the second run
\* creates no MediaStream).
C11_IdempotentHandling ==
    \A e \in Events :
        \A once \in {Handled(e)} : \A twice \in {HandledIn(once.dom, e)} :
            /\ twice.dom = once.dom
            /\ twice.streams = {}
            /\ twice.dom.container[e.p] = 1
            /\ (~IsLocalId(e.p) /\ e.audio.persistentTrack # NoTrack)
                   => twice.dom.audio[e.p].n = 1

\* The last event bound a remote participant's two tracks, and handling the
\* same snapshot again gives this very document.
C11_Witness ==
    /\ last.op = "event"
    /\ \E e \in Events :
          /\ ~IsLocalId(e.p)
          /\ e.video.persistentTrack # NoTrack /\ e.audio.persistentTrack # NoTrack
          /\ dom.video[e.p].src = MediaStream({e.video.persistentTrack})
          /\ dom.audio[e.p].src = MediaStream({e.audio.persistentTrack})
          /\ Handled(e).dom = dom

\* C12: when the target element of one track type cannot be found while an
\* event is handled (the container holds no video element), the other track
\* type of the snapshot is still reconciled in that invocation: a remote
\* audio handle is bound, an audio descriptor without handle leaves no audio
\* element, and the local mic-state label is refreshed.
C12_MissingElementAbortsOneTrack ==
    \A e \in Events :
        (dom.container[e.p] > 0 /\ dom.video[e.p].n = 0)
            => /\ (~IsLocalId(e.p) /\ e.audio.persistentTrack # NoTrack)
                      => Handled(e).dom.audio[e.p].src = MediaStream({e.audio.persistentTrack})
               /\ e.audio.persistentTrack = NoTrack => Handled(e).dom.audio[e.p].n = 0
               /\ IsLocalId(e.p) => Handled(e).dom.mic = <<"Mic", OnOff(call.localAudio)>>

\* The element of track type tt of participant p is in document d and bound.
Bound(d, tt, p) == d[tt][p].n > 0 /\ d[tt][p].src.live

\* C15: among participant events an element becomes bound only while an
\* event of its participant is handled whose descriptor of that track type
\* carries a live handle, and a bound element becomes absent only while an
\* event of its participant is handled whose descriptor carries none.
C15_TrackStateMachine ==
    \A e \in Events :
        \A after \in {Handled(e).dom} :
            \A p \in Ids : \A tt \in TrackTypes :
                /\ (~Bound(dom, tt, p) /\ Bound(after, tt, p))
                       => (e.p = p /\ Tracks(e)[tt].persistentTrack # NoTrack)
                /\ (Bound(dom, tt, p) /\ after[tt][p].n = 0)
                       => (e.p = p /\ Tracks(e)[tt].persistentTrack = NoTrack)

\* A bound audio element that an event without audio handle makes absent,
\* and that an event with a handle binds again.
C15_Witness ==
    /\ last.op = "event"
    /\ \E p \in Ids : \E e, f \in Events :
          /\ e.p = p /\ f.p = p /\ Bound(dom, "audio", p)
          /\ e.audio.persistentTrack = NoTrack /\ Handled(e).dom.audio[p].n = 0
          /\ f.audio.persistentTrack # NoTrack /\ Bound(HandledIn(Handled(e).dom, f).dom, "audio", p)

\* C16: a toggle sets the enablement of its device to the negation of the
\* current value and nothing else: the other device, the pending leave and
\* the whole document stay as they are, and a second toggle of the same
\* device restores the enablement.
C16_TogglesNegate ==
    [][(last'.op = "sdk" /\ call'.leaving = call.leaving)
         => /\ dom' = dom /\ media' = media
            /\ \/ /\ call'.localVideo = ~call.localVideo
                  /\ call'.localAudio = call.localAudio
                  /\ setLocalVideoToggled(call') = call
               \/ /\ call'.localAudio = ~call.localAudio
                  /\ call'.localVideo = call.localVideo
                  /\ setLocalAudioToggled(call') = call]_vars

\* The camera was toggled off and the microphone is still on, with tiles in
\* the document.
C16_Witness ==
    /\ last.op = "sdk"
    /\ ~call.localVideo /\ call.localAudio /\ call.leaving = 0
    /\ \E p \in Ids : Bound(dom, "video", p)

\* The lists of track types destroyTracks is called with.
TrackTypeLists == {<<"video">>, <<"audio">>, <<"video", "audio">>, <<"audio", "video">>}

\* C17: destroyTracks for a participant and track types whose elements do not
\* exist changes nothing and raises no error, and calling it twice in a row
\* has the effect of calling it once.
C17_DestroyTracksSafe ==
    \A p \in Ids : \A tts \in TrackTypeLists :
        \A once \in {destroyTracks(Ctx(dom), tts, p)} :
            /\ destroyTracks(once, tts, p) = once
            /\ ~once.threw
            /\ (\A i \in 1 .. Len(tts) : GetElementById(dom, ElementId(tts[i], p), p) = "")
                   => once = Ctx(dom)

\* An event without audio handle has removed a remote participant's audio
\* element; destroyTracks for it again changes nothing.
C17_Witness ==
    /\ last.op = "event"
    /\ \E p \in Ids :
          /\ ~IsLocalId(p) /\ dom.container[p] = 1 /\ dom.audio[p].n = 0
          /\ destroyTracks(Ctx(dom), <<"audio">>, p) = Ctx(dom)

\* C18: no operation removes a video container: in every step the number
\* of containers of every participant id stays or grows, through events,
\* track loss and a successful leave().
C18_ContainersPersist ==
    [][\A p \in Ids : dom'.container[p] >= dom.container[p]]_vars

\* A successful leave() has removed the media elements of a tile and its
\* container is still in the document.
C18_Witness ==
    /\ last.op = "leaveResolved"
    /\ \E p \in Ids : dom.container[p] = 1 /\ dom.video[p].n = 0 /\ dom.audio[p].n = 0

\* C19: handling an event for participant A leaves the container, the
\* video element and the audio element of every other participant B as they
\* are (existence, bound source, visibility).
C19_OtherParticipantsUntouched ==
    \A e \in Events :
        \A after \in {Handled(e).dom} :
            \A q \in Ids \ {e.p} :
                /\ after.container[q] = dom.container[q]
                /\ after.video[q] = dom.video[q]
                /\ after.audio[q] = dom.audio[q]

\* The last event changed one participant's tile while another participant
\* has a hidden bound video and, if remote, a bound audio element.
C19_Witness ==
    /\ last.op = "event"
    /\ \E p, q \in Ids :
          /\ p # q
          /\ Bound(dom, "video", p) /\ dom.video[p].display = ""
          /\ Bound(dom, "video", q) /\ dom.video[q].display = "none"
          /\ \E r \in {p, q} : Bound(dom, "audio", r)

\* C20: the local participant never has an audio element: none exists in
\* any reachable state, the handler neither creates one nor calls
\* startOrUpdateTrack for the local audio track, and the mic-state label is
\* refreshed on every local audio descriptor.
C20_LocalAudioNeverProjected ==
    \A p \in Ids :
        IsLocalId(p)
            => /\ dom.audio[p].n = 0
               /\ \A e \in Events :
                     e.p = p
                         => /\ "audio" \notin Handled(e).calls
                            /\ Handled(e).dom.audio[p] = NoElement
                            /\ Handled(e).dom.mic = <<"Mic", OnOff(call.localAudio)>>

\* C20 without the label: no audio element of the local participant exists,
\* is created or is bound.
C20_NoLocalAudioElement ==
    \A p \in Ids :
        IsLocalId(p)
            => /\ dom.audio[p].n = 0
               /\ \A e \in Events :
                     e.p = p => ("audio" \notin Handled(e).calls /\ Handled(e).dom.audio[p] = NoElement)

\* C13: playback is asynchronous and off the critical path of the
\* projection. A bound element carries the MediaStream of its most recent
\* rebinding and at most one play-on-load callback, whatever playback
\* callbacks of earlier bindings are still outstanding, and a playback
\* callback that runs (metadata loaded, play() resolved or rejected) changes
\* neither the DOM nor the handle the element is bound to.
PlaybackOps == {"loadedmetadata", "playResolved", "playRejected"}

C13_SourceOfLatestBinding ==
    \A k \in TrackTypes : \A p \in Ids :
        /\ media[k][p].handlers <= 1
        /\ Bound(dom, k, p) =>
              /\ media[k][p].handlers = 1
              /\ dom[k][p].src = MediaStream({media[k][p].handle})

C13_PlaybackOffCriticalPath ==
    /\ []C13_SourceOfLatestBinding
    /\ [][last'.op \in PlaybackOps =>
            /\ dom' = dom
            /\ \A k \in TrackTypes : \A p \in Ids :
                   /\ media'[k][p].handle = media[k][p].handle
                   /\ media'[k][p].handlers = media[k][p].handlers]_vars

\* A play() promise of an earlier binding rejects after the element was
\* rebound and while the new source is still loading.
C13_Witness ==
    /\ last.op = "playRejected"
    /\ \E k \in TrackTypes : \E p \in Ids :
          /\ <<"Error playing", k, p>> \in last.log
          /\ Bound(dom, k, p)
          /\ media[k][p].loading
          /\ media[k][p].handle = MaxHandle

\* C14: a rejected play() is logged and nothing else: nothing propagates,
\* the DOM and the bound source stay, the element stays bound but not
\* playing, nothing is scheduled again, and an event that offers the handle
\* the element is bound to does not rebind it.
C14_RejectedState ==
    last.op = "playRejected" =>
        /\ ~last.threw
        /\ \E k \in TrackTypes : \E p \in Ids : last.log = {<<"Error playing", k, p>>}
        /\ \A k \in TrackTypes : \A p \in Ids :
              (<<"Error playing", k, p>> \in last.log /\ Bound(dom, k, p)) =>
                  /\ ~media[k][p].playing /\ ~media[k][p].pending
                  /\ \A e \in Events :
                        (e.p = p /\ Tracks(e)[k].persistentTrack = media[k][p].handle)
                            => k \notin Handled(e).streams

C14_PlayRejectionOnlyLogged ==
    /\ []C14_RejectedState
    /\ [][last'.op = "playRejected" =>
            /\ dom' = dom
            /\ \E k \in TrackTypes : \E p \in Ids :
                   /\ <<"Error playing", k, p>> \in last'.log
                   /\ media' = [media EXCEPT ![k][p] = [@ EXCEPT !.pending = FALSE,
                                                                  !.playing = FALSE]]]_vars

\* A play() promise rejected for an element that stays bound and not playing.
C14_Witness ==
    /\ last.op = "playRejected"
    /\ \E k \in TrackTypes : \E p \in Ids :
          /\ <<"Error playing", k, p>> \in last.log
          /\ Bound(dom, k, p)
          /\ ~media[k][p].loading /\ ~media[k][p].pending /\ ~media[k][p].playing
====
